---- MODULE Spec2Model ----
(***************************************************************************)
(* A model of the CHIP-8 interpreter of clint07/CHIP-8-Py: the state of    *)
(* class Chip8 (src/chip8/chip8.py) and one action per public method, as   *)
(* a client of the class (the unit tests, or main.py's loop) may call      *)
(* them.  Python integers are unbounded, so a register, the index          *)
(* register and the program counter are Int, not bytes: nothing in the     *)
(* class wraps them.  An exception ends the run: neither main.py nor the   *)
(* class catches anything.  Every method of the class is an action.        *)
(***************************************************************************)
EXTENDS Integers, Sequences, FiniteSets, TLC

VARIABLES
    program_counter,   \* chip8.py:19
    stack_pointer,     \* chip8.py:22
    address_register,  \* chip8.py:24
    registers,         \* chip8.py:28, a function on 0..15
    memory,            \* chip8.py:30, the cells written since __init__
    stack,             \* chip8.py:32, a function on 0..15
    delay_timer,       \* chip8.py:34
    sound_timer,       \* chip8.py:36
    draw_flag,         \* chip8.py:39
    display,           \* chip8.py:41, the set of pixels that are not 0
    outcome,           \* how the last call ended: "ok" or the exception raised
    last,              \* history: the last call, the PC and SP it started from and,
                       \* for a ret that follows a call at once, the same of that call
    steps              \* number of calls made so far

vars == <<program_counter, stack_pointer, address_register, registers, memory,
          stack, delay_timer, sound_timer, draw_flag, display, outcome, last, steps>>

(***************************************************************************)
(* Bounds of the model and the inputs the client draws from.               *)
(***************************************************************************)
MaxSteps == 3

\* Register indices a call is made with: a general register and the flag.
RegIdx == {0, 15}
\* Immediate bytes kk.
KK == {1, 129, 255}
\* Addresses nnn: the program start, both sides of 4028 and the last cell.
NNN == {512, 4028, 4029, 4095}
\* Values randint(0, 255) returns in the model.
RandomBytes == {15, 16, 255}
\* Sprite heights n a draw is called with.
SpriteRows == {1}
\* ROM images load_file reads.
Roms == {<<0, 224>>, <<18, 0, 255>>}

(***************************************************************************)
(* Program constants.                                                      *)
(***************************************************************************)
NumRegisters == 16
MemorySize == 4096
StackSize == 16
ProgramStart == 512
JumpLimit == 4028

font ==
    <<240, 144, 144, 144, 240,   32,  96,  32,  32, 112,
      240,  16, 240, 128, 240,  240,  16, 240,  16, 240,
      160, 160, 240,  32,  32,  240, 128, 240,  16, 240,
      240, 128, 240, 144, 240,  240,  16,  32,  64,  64,
      240, 144, 240, 144, 240,  240, 144, 240,  16, 240,
      240, 144, 240, 144, 144,  224, 144, 224, 144, 224,
      240, 128, 128, 128, 240,  224, 144, 144, 144, 224,
      240, 128, 240, 128, 240,  240, 128, 240, 128, 128>>

(***************************************************************************)
(* Python's list indexing: an index in -len..len-1 is valid and a negative *)
(* one counts from the end; any other raises IndexError.                   *)
(***************************************************************************)
IndexOk(i, len) == -len <= i /\ i < len
Slot(i, len) == IF i < 0 THEN i + len ELSE i

\* memory[a] right after __init__: [0] * 4096 with the font copied to the
\* front by load_font, self.memory[:len(font)] = font.
load_font(a) == IF a < Len(font) THEN font[a + 1] ELSE 0

(***************************************************************************)
(* A Python number held in a memory cell, as whole + hundredths / 100.  An *)
(* int n is int(n).  The floats that load_bcd's  dec /= 10  makes are      *)
(* multiples of 1/100, taken here exactly, without the rounding error of   *)
(* the binary float (Python prints 129 / 10 % 10 as 2.9000000000000004): a *)
(* float is whole in the model exactly when it is in Python.               *)
(***************************************************************************)
int(n) == [whole |-> n, hundredths |-> 0]
number(h) == [whole |-> h \div 100, hundredths |-> h % 100]

\* mem[a] for a slot a in 0..4095: the cell as written, else as built.
cell(mem, a) == IF a \in DOMAIN mem THEN mem[a] ELSE int(load_font(a))

\* self.memory[a] = v, keeping only the cells that differ from load_font.
memory_set(mem, a, v) ==
    [b \in IF v = int(load_font(a)) THEN DOMAIN mem \ {a} ELSE DOMAIN mem \cup {a} |->
        IF b = a THEN v ELSE mem[b]]

(***************************************************************************)
(* Python's &, | and ^ on unbounded two's-complement integers.             *)
(***************************************************************************)
RECURSIVE BitAnd(_, _)
BitAnd(a, b) ==
    IF a = 0 \/ b = 0 THEN 0
    ELSE IF a = -1 THEN b
    ELSE IF b = -1 THEN a
    ELSE (a % 2) * (b % 2) + 2 * BitAnd(a \div 2, b \div 2)

RECURSIVE BitOr(_, _)
BitOr(a, b) ==
    IF a = 0 THEN b
    ELSE IF b = 0 THEN a
    ELSE IF a = -1 \/ b = -1 THEN -1
    ELSE (IF a % 2 = 1 \/ b % 2 = 1 THEN 1 ELSE 0) + 2 * BitOr(a \div 2, b \div 2)

RECURSIVE BitXor(_, _)
BitXor(a, b) ==
    IF a = 0 THEN b
    ELSE IF b = 0 THEN a
    ELSE IF a = -1 THEN -b - 1
    ELSE IF b = -1 THEN -a - 1
    ELSE (((a % 2) + (b % 2)) % 2) + 2 * BitXor(a \div 2, b \div 2)

\* Evaluating NotImplemented(): NotImplemented is not callable.
NotImplementedCall == "TypeError"

(***************************************************************************)
(* Chip8.__init__                                                          *)
(***************************************************************************)
NoCall == [op |-> "none", pc |-> 0, sp |-> 0]

Init ==
    /\ program_counter = ProgramStart
    /\ stack_pointer = 0
    /\ address_register = 0
    /\ registers = [i \in 0..(NumRegisters - 1) |-> 0]
    /\ memory = [a \in {} |-> 0]
    /\ stack = [i \in 0..(StackSize - 1) |-> 0]
    /\ delay_timer = 0
    /\ sound_timer = 0
    /\ draw_flag = FALSE
    /\ display = {}
    /\ outcome = "ok"
    /\ last = [op |-> "none", pc |-> 0, sp |-> 0, before |-> NoCall]
    /\ steps = 0

(***************************************************************************)
(* A call of method op by the client: only while the run is alive, and     *)
(* within the model's bound on the number of calls.                        *)
(***************************************************************************)
Called(op) ==
    /\ outcome = "ok"
    /\ steps < MaxSteps
    /\ steps' = steps + 1
    /\ last' = [op |-> op, pc |-> program_counter, sp |-> stack_pointer,
                before |-> IF op = "ret" /\ last.op = "call"
                             THEN [op |-> last.op, pc |-> last.pc, sp |-> last.sp]
                             ELSE NoCall]

\* The call returns normally.
Returns == outcome' = "ok"
\* The call raises exception e.
Raises(e) == outcome' = e

(***************************************************************************)
(* Control flow: 00E0, 00EE, 1nnn, 2nnn, 3xkk, 4xkk, 5xy0, 9xy0, Bnnn.     *)
(***************************************************************************)
\* 00E0
clear ==
    /\ Called("clear")
    /\ display' = {}
    /\ draw_flag' = TRUE
    /\ program_counter' = program_counter + 2
    /\ Returns
    /\ UNCHANGED <<stack_pointer, address_register, registers, memory, stack,
                   delay_timer, sound_timer>>

\* ret with the PC left on the call instruction: no += 2 after the pop.
ret_without_increment ==
    /\ Called("ret")
    /\ stack_pointer' = stack_pointer - 1
    /\ IF stack_pointer - 1 < 0
         THEN Raises("SystemExit") /\ UNCHANGED program_counter
         ELSE IF ~IndexOk(stack_pointer - 1, StackSize)
           THEN Raises("IndexError") /\ UNCHANGED program_counter
           ELSE Returns /\ program_counter' = stack[stack_pointer - 1]
    /\ UNCHANGED <<address_register, registers, memory, stack, delay_timer,
                   sound_timer, draw_flag, display>>

\* 00EE.  The decrement is kept when quit() or the list read raises.
ret ==
    /\ Called("ret")
    /\ stack_pointer' = stack_pointer - 1
    /\ IF stack_pointer - 1 < 0
         THEN Raises("SystemExit") /\ UNCHANGED program_counter
         ELSE IF ~IndexOk(stack_pointer - 1, StackSize)
           THEN Raises("IndexError") /\ UNCHANGED program_counter
           ELSE Returns /\ program_counter' = stack[stack_pointer - 1] + 2
    /\ UNCHANGED <<address_register, registers, memory, stack, delay_timer,
                   sound_timer, draw_flag, display>>

\* 1nnn.  The PC is assigned before the bound is tested.
jump(nnn) ==
    /\ Called("jump")
    /\ program_counter' = nnn
    /\ IF nnn > JumpLimit THEN Raises("SystemExit") ELSE Returns
    /\ UNCHANGED <<stack_pointer, address_register, registers, memory, stack,
                   delay_timer, sound_timer, draw_flag, display>>

\* call that increments the stack pointer before the push, the order the
\* docstring gives: the PC goes to the slot above.
call_increment_first(nnn) ==
    /\ Called("call")
    /\ IF ~IndexOk(stack_pointer + 1, StackSize)
         THEN /\ Raises("IndexError")
              /\ UNCHANGED <<stack, program_counter, stack_pointer>>
         ELSE /\ stack' = [stack EXCEPT ![Slot(stack_pointer + 1, StackSize)] = program_counter]
              /\ program_counter' = nnn
              /\ stack_pointer' = stack_pointer + 1
              /\ Returns
    /\ UNCHANGED <<address_register, registers, memory, delay_timer,
                   sound_timer, draw_flag, display>>

\* call whose write to a full stack is dropped and only logged, as the
\* handler's two bound tests do: the call goes on.
call_logs_overflow(nnn) ==
    /\ Called("call")
    /\ stack' = [i \in DOMAIN stack |->
                   IF IndexOk(stack_pointer, StackSize) /\ i = Slot(stack_pointer, StackSize)
                     THEN program_counter ELSE stack[i]]
    /\ program_counter' = nnn
    /\ stack_pointer' = stack_pointer + 1
    /\ Returns
    /\ UNCHANGED <<address_register, registers, memory, delay_timer,
                   sound_timer, draw_flag, display>>

\* 2nnn.  The list write raises before anything is changed; both bound
\* tests only log.
call(nnn) ==
    /\ Called("call")
    /\ IF ~IndexOk(stack_pointer, StackSize)
         THEN /\ Raises("IndexError")
              /\ UNCHANGED <<stack, program_counter, stack_pointer>>
         ELSE /\ stack' = [stack EXCEPT ![Slot(stack_pointer, StackSize)] = program_counter]
              /\ program_counter' = nnn
              /\ stack_pointer' = stack_pointer + 1
              /\ Returns
    /\ UNCHANGED <<address_register, registers, memory, delay_timer,
                   sound_timer, draw_flag, display>>

\* skip_pc without the conditional increment.
skip_pc_never_taken(cond) == program_counter + 2

\* The PC after a skip instruction whose condition is cond.
skip_pc(cond) == IF cond THEN (program_counter + 2) + 2 ELSE program_counter + 2

\* 3xkk
skip_if(vx, kk) ==
    /\ Called("skip_if")
    /\ program_counter' = skip_pc(registers[vx] = kk)
    /\ Returns
    /\ UNCHANGED <<stack_pointer, address_register, registers, memory, stack,
                   delay_timer, sound_timer, draw_flag, display>>

\* 4xkk
skip_if_not(vx, kk) ==
    /\ Called("skip_if_not")
    /\ program_counter' = skip_pc(registers[vx] # kk)
    /\ Returns
    /\ UNCHANGED <<stack_pointer, address_register, registers, memory, stack,
                   delay_timer, sound_timer, draw_flag, display>>

\* 5xy0
skip_if_xy(vx, vy) ==
    /\ Called("skip_if_xy")
    /\ program_counter' = skip_pc(registers[vx] = registers[vy])
    /\ Returns
    /\ UNCHANGED <<stack_pointer, address_register, registers, memory, stack,
                   delay_timer, sound_timer, draw_flag, display>>

\* 9xy0
skip_if_not_xy(vx, vy) ==
    /\ Called("skip_if_not_xy")
    /\ program_counter' = skip_pc(registers[vx] # registers[vy])
    /\ Returns
    /\ UNCHANGED <<stack_pointer, address_register, registers, memory, stack,
                   delay_timer, sound_timer, draw_flag, display>>

\* Bnnn
jump_v0(nnn) ==
    /\ Called("jump_v0")
    /\ program_counter' = registers[0] + nnn
    /\ Returns
    /\ UNCHANGED <<stack_pointer, address_register, registers, memory, stack,
                   delay_timer, sound_timer, draw_flag, display>>

(***************************************************************************)
(* Arithmetic and logic: 6xkk, 7xkk, 8xy0..8xyE, Cxkk.  Each handler's     *)
(* effect on the register list is an operator that makes the handler's     *)
(* writes in the handler's order, so that a later read of registers[vx]    *)
(* or registers[vy] sees an earlier write of registers[0xF].               *)
(***************************************************************************)
\* The handler writes the register list regs and ends with PC += 2.
alu(op, regs) ==
    /\ Called(op)
    /\ registers' = regs
    /\ program_counter' = program_counter + 2
    /\ Returns
    /\ UNCHANGED <<stack_pointer, address_register, memory, stack, delay_timer,
                   sound_timer, draw_flag, display>>

\* 6xkk
load(vx, kk) == alu("load", [registers EXCEPT ![vx] = kk])

\* 7xkk
add(vx, kk) == alu("add", [registers EXCEPT ![vx] = registers[vx] + kk])

\* 8xy0
load_xy(vx, vy) == alu("load_xy", [registers EXCEPT ![vx] = registers[vy]])

\* 8xy1
or_xy(vx, vy) ==
    alu("or_xy", [registers EXCEPT ![vx] = BitOr(registers[vx], registers[vy])])

\* 8xy2
and_xy(vx, vy) ==
    alu("and_xy", [registers EXCEPT ![vx] = BitAnd(registers[vx], registers[vy])])

\* 8xy3
x_or_xy(vx, vy) ==
    alu("x_or_xy", [registers EXCEPT ![vx] = BitXor(registers[vx], registers[vy])])

\* 8xy4: num from the operands, then the flag, then registers[vx] = num.
add_xy_registers(regs, vx, vy) ==
    LET num == regs[vx] + regs[vy]
        flagged == [regs EXCEPT ![15] = IF num > 255 THEN 1 ELSE 0]
    IN  [flagged EXCEPT ![vx] = num]

add_xy(vx, vy) == alu("add_xy", add_xy_registers(registers, vx, vy))

\* 8xy5: the flag, then registers[vx] = registers[vx] - registers[vy].
sub_xy_registers(regs, vx, vy) ==
    LET flagged == [regs EXCEPT ![15] = IF regs[vx] > regs[vy] THEN 1 ELSE 0]
    IN  [flagged EXCEPT ![vx] = flagged[vx] - flagged[vy]]

sub_xy(vx, vy) == alu("sub_xy", sub_xy_registers(registers, vx, vy))

\* 8xy6: the flag, then registers[vx] = registers[vx] >> 1.
shift_right_registers(regs, vx) ==
    LET flagged == [regs EXCEPT ![15] = regs[vx] % 2]
    IN  [flagged EXCEPT ![vx] = flagged[vx] \div 2]

shift_right(vx) == alu("shift_right", shift_right_registers(registers, vx))

\* 8xy7: the flag, then registers[vx] = registers[vy] - registers[vx].
sub_yx_registers(regs, vx, vy) ==
    LET flagged == [regs EXCEPT ![15] = IF regs[vy] > regs[vx] THEN 1 ELSE 0]
    IN  [flagged EXCEPT ![vx] = flagged[vy] - flagged[vx]]

sub_yx(vx, vy) == alu("sub_yx", sub_yx_registers(registers, vx, vy))

\* 8xyE: the flag (registers[vx] >> 7) & 0x1, then registers[vx] << 1.
shift_left_registers(regs, vx) ==
    LET flagged == [regs EXCEPT ![15] = (regs[vx] \div 128) % 2]
    IN  [flagged EXCEPT ![vx] = flagged[vx] * 2]

shift_left(vx) == alu("shift_left", shift_left_registers(registers, vx))

\* Cxkk, r the value of randint(0, 255)
rand(vx, kk, r) == alu("rand", [registers EXCEPT ![vx] = BitAnd(kk, r)])

(***************************************************************************)
(* Index register, timers, keys, display: Annn, Dxyn, Ex9E, ExA1, Fx07,    *)
(* Fx0A, Fx15, Fx18, Fx1E, Fx29, Fx33, Fx55, Fx65.                         *)
(***************************************************************************)
\* A handler whose body starts with NotImplemented(): the call raises
\* before the handler's PC += 2, and nothing is changed.
not_implemented(op) ==
    /\ Called(op)
    /\ Raises(NotImplementedCall)
    /\ UNCHANGED <<program_counter, stack_pointer, address_register, registers,
                   memory, stack, delay_timer, sound_timer, draw_flag, display>>

\* Annn
load_i(nnn) ==
    /\ Called("load_i")
    /\ address_register' = nnn
    /\ program_counter' = program_counter + 2
    /\ Returns
    /\ UNCHANGED <<stack_pointer, registers, memory, stack, delay_timer,
                   sound_timer, draw_flag, display>>

\* Dxyn
draw(vx, vy, n) == not_implemented("draw")

\* Ex9E
skip_if_key(vx) == not_implemented("skip_if_key")

\* ExA1
skip_if_key_not(vx) == not_implemented("skip_if_key_not")

\* Fx07
load_xdt(vx) == alu("load_xdt", [registers EXCEPT ![vx] = delay_timer])

\* Fx0A
load_key(vx) == not_implemented("load_key")

\* Fx15
load_dtx(vx) ==
    /\ Called("load_dtx")
    /\ delay_timer' = registers[vx]
    /\ program_counter' = program_counter + 2
    /\ Returns
    /\ UNCHANGED <<stack_pointer, address_register, registers, memory, stack,
                   sound_timer, draw_flag, display>>

\* Fx18.  The handler assigns self.stack_pointer, not self.sound_timer.
load_stx(vx) ==
    /\ Called("load_stx")
    /\ stack_pointer' = registers[vx]
    /\ program_counter' = program_counter + 2
    /\ Returns
    /\ UNCHANGED <<address_register, registers, memory, stack, delay_timer,
                   sound_timer, draw_flag, display>>

\* Fx1E
add_ix(vx) ==
    /\ Called("add_ix")
    /\ address_register' = address_register + registers[vx]
    /\ program_counter' = program_counter + 2
    /\ Returns
    /\ UNCHANGED <<stack_pointer, registers, memory, stack, delay_timer,
                   sound_timer, draw_flag, display>>

\* Fx29
load_ix(vx) ==
    /\ Called("load_ix")
    /\ address_register' = registers[vx] * 5
    /\ program_counter' = program_counter + 2
    /\ Returns
    /\ UNCHANGED <<stack_pointer, registers, memory, stack, delay_timer,
                   sound_timer, draw_flag, display>>

\* The cells after  memory[base + i] = dec % 10; dec /= 10  for i, i - 1
\* .. 0, and the exception that stopped the loop ("none": it ran to the
\* end).  At index i dec is value / 10 ^ (2 - i), value * 10 ^ i hundredths.
RECURSIVE bcd_cells(_, _, _, _)
bcd_cells(mem, base, value, i) ==
    IF i < 0 THEN [memory |-> mem, exc |-> "none"]
    ELSE IF ~IndexOk(base + i, MemorySize)
      THEN [memory |-> mem, exc |-> "IndexError"]
      ELSE bcd_cells(memory_set(mem, Slot(base + i, MemorySize),
                                number((value * 10 ^ i) % 1000)),
                     base, value, i - 1)

\* Fx33
load_bcd(vx) ==
    /\ Called("load_bcd")
    /\ LET stored == bcd_cells(memory, address_register, registers[vx], 2)
       IN  /\ memory' = stored.memory
           /\ IF stored.exc = "none"
                THEN program_counter' = program_counter + 2 /\ Returns
                ELSE UNCHANGED program_counter /\ Raises(stored.exc)
    /\ UNCHANGED <<stack_pointer, address_register, registers, stack,
                   delay_timer, sound_timer, draw_flag, display>>

\* Fx55
save_v(vx) == not_implemented("save_v")

\* Fx65
load_v(vx) == not_implemented("load_v")

(***************************************************************************)
(* The cycle, the ROM loader and the host's clock.                         *)
(***************************************************************************)
\* get_instruction and execute_instruction: the exception each call raises.
get_instruction == NotImplementedCall
execute_instruction == NotImplementedCall

\* A timer after the cycle's  if timer > 0: timer -= 1.
decremented(timer) == IF timer > 0 THEN timer - 1 ELSE timer

\* Chip8.cycle: fetch, execute, then both timers.
cycle ==
    /\ Called("cycle")
    /\ IF get_instruction # "none"
         THEN Raises(get_instruction) /\ UNCHANGED <<delay_timer, sound_timer>>
         ELSE IF execute_instruction # "none"
           THEN Raises(execute_instruction) /\ UNCHANGED <<delay_timer, sound_timer>>
           ELSE /\ delay_timer' = decremented(delay_timer)
                /\ sound_timer' = decremented(sound_timer)
                /\ Returns
    /\ UNCHANGED <<program_counter, stack_pointer, address_register, registers,
                   memory, stack, draw_flag, display>>

\* The cells after  memory[base + index] = val  for index = i.., and the
\* exception that stopped the loop ("none": it ran to the end).
RECURSIVE load_bytes(_, _, _, _)
load_bytes(mem, base, data, i) ==
    IF i > Len(data) THEN [memory |-> mem, exc |-> "none"]
    ELSE IF ~IndexOk(base + (i - 1), MemorySize)
      THEN [memory |-> mem, exc |-> "IndexError"]
      ELSE load_bytes(memory_set(mem, Slot(base + (i - 1), MemorySize),
                                 int(data[i])),
                      base, data, i + 1)

\* Chip8.load_file: the bytes go to memory[program_counter + index].
load_file(rom) ==
    /\ Called("load_file")
    /\ LET loaded == load_bytes(memory, program_counter, rom, 1)
       IN  /\ memory' = loaded.memory
           /\ IF loaded.exc = "none" THEN Returns ELSE Raises(loaded.exc)
    /\ UNCHANGED <<program_counter, stack_pointer, address_register, registers,
                   stack, delay_timer, sound_timer, draw_flag, display>>

\* main's clock.tick(Constants.fps): it paces the loop and touches no field
\* of the Chip8 object.
tick ==
    /\ Called("tick")
    /\ Returns
    /\ UNCHANGED <<program_counter, stack_pointer, address_register, registers,
                   memory, stack, delay_timer, sound_timer, draw_flag, display>>

(***************************************************************************)
(* The client calls any method with any argument.                          *)
(***************************************************************************)
Next ==
    \/ clear
    \/ ret
    \/ \E nnn \in NNN : jump(nnn)
    \/ \E nnn \in NNN : call(nnn)
    \/ \E vx \in RegIdx, kk \in KK : skip_if(vx, kk)
    \/ \E vx \in RegIdx, kk \in KK : skip_if_not(vx, kk)
    \/ \E vx \in RegIdx, vy \in RegIdx : skip_if_xy(vx, vy)
    \/ \E vx \in RegIdx, kk \in KK : load(vx, kk)
    \/ \E vx \in RegIdx, kk \in KK : add(vx, kk)
    \/ \E vx \in RegIdx, vy \in RegIdx : load_xy(vx, vy)
    \/ \E vx \in RegIdx, vy \in RegIdx : or_xy(vx, vy)
    \/ \E vx \in RegIdx, vy \in RegIdx : and_xy(vx, vy)
    \/ \E vx \in RegIdx, vy \in RegIdx : x_or_xy(vx, vy)
    \/ \E vx \in RegIdx, vy \in RegIdx : add_xy(vx, vy)
    \/ \E vx \in RegIdx, vy \in RegIdx : sub_xy(vx, vy)
    \/ \E vx \in RegIdx : shift_right(vx)
    \/ \E vx \in RegIdx, vy \in RegIdx : sub_yx(vx, vy)
    \/ \E vx \in RegIdx : shift_left(vx)
    \/ \E vx \in RegIdx, vy \in RegIdx : skip_if_not_xy(vx, vy)
    \/ \E nnn \in NNN : load_i(nnn)
    \/ \E nnn \in NNN : jump_v0(nnn)
    \/ \E vx \in RegIdx, kk \in KK, r \in RandomBytes : rand(vx, kk, r)
    \/ \E vx \in RegIdx, vy \in RegIdx, n \in SpriteRows : draw(vx, vy, n)
    \/ \E vx \in RegIdx : skip_if_key(vx)
    \/ \E vx \in RegIdx : skip_if_key_not(vx)
    \/ \E vx \in RegIdx : load_xdt(vx)
    \/ \E vx \in RegIdx : load_key(vx)
    \/ \E vx \in RegIdx : load_dtx(vx)
    \/ \E vx \in RegIdx : load_stx(vx)
    \/ \E vx \in RegIdx : add_ix(vx)
    \/ \E vx \in RegIdx : load_ix(vx)
    \/ \E vx \in RegIdx : load_bcd(vx)
    \/ \E vx \in RegIdx : save_v(vx)
    \/ \E vx \in RegIdx : load_v(vx)
    \/ cycle
    \/ \E rom \in Roms : load_file(rom)
    \/ tick

Spec == Init /\ [][Next]_vars

(***************************************************************************)
(* Properties.  A property of one call is an action property: the call is  *)
(* the step, the unprimed variables are the state it starts from.          *)
(***************************************************************************)
Byte == 0..255
IsByte(v) == v \in Byte

\* C1: the timers are decremented by the 60Hz tick and by nothing else: a
\* tick lowers each timer that is not 0 by exactly 1, and a CPU cycle leaves
\* both timers alone, so that any number of cycles between two ticks costs a
\* timer 1, not one per cycle.
C1_TimersFollowTheTick ==
    [][ /\ tick =>
            /\ delay_timer > 0 => delay_timer' = delay_timer - 1
            /\ sound_timer > 0 => sound_timer' = sound_timer - 1
        /\ cycle =>
            /\ delay_timer' = delay_timer
            /\ sound_timer' = sound_timer ]_vars

\* C2: for operands in 0..255, add_xy(x, y) sets VF to 1 iff Vx + Vy > 255
\* (else 0), stores (Vx + Vy) mod 256 in Vx and advances the PC by 2.  Stated
\* for x # 0xF: with x = 0xF the sum and the flag go to the same register,
\* which is C3's case.
C2_AddXYCarryAndWrap ==
    [][ \A x \in RegIdx \ {15}, y \in RegIdx :
          (last'.op = "add_xy" /\ add_xy(x, y)
             /\ IsByte(registers[x]) /\ IsByte(registers[y])) =>
            /\ registers'[15] = IF registers[x] + registers[y] > 255 THEN 1 ELSE 0
            /\ registers'[x] = (registers[x] + registers[y]) % 256
            /\ program_counter' = program_counter + 2 ]_vars

\* C3: after add_xy, sub_xy, sub_yx, shift_right and shift_left on operands
\* in 0..255, VF holds the flag computed from the operands as they were
\* before the instruction, also when the destination x is 0xF.
C3_FlagWrittenLast ==
    [][ \A x \in RegIdx, y \in RegIdx :
          (IsByte(registers[x]) /\ IsByte(registers[y])) =>
            /\ add_xy(x, y) =>
                 registers'[15] = IF registers[x] + registers[y] > 255 THEN 1 ELSE 0
            /\ sub_xy(x, y) =>
                 registers'[15] = IF registers[x] > registers[y] THEN 1 ELSE 0
            /\ sub_yx(x, y) =>
                 registers'[15] = IF registers[y] > registers[x] THEN 1 ELSE 0
            /\ shift_right(x) => registers'[15] = registers[x] % 2
            /\ shift_left(x) => registers'[15] = (registers[x] \div 128) % 2 ]_vars

\* C4: a ret that follows at once a call made at PC p with stack pointer s,
\* 0 <= s < 16, returns with PC = p + 2 and SP = s.
C4_CallThenRet ==
    (/\ last.op = "ret"
     /\ last.before.op = "call"
     /\ 0 <= last.before.sp
     /\ last.before.sp < 16) =>
        /\ outcome = "ok"
        /\ program_counter = last.before.pc + 2
        /\ stack_pointer = last.before.sp

\* C4 witness: a call made with a slot already in use has been returned from.
C4_Witness ==
    /\ last.op = "ret"
    /\ last.before.op = "call"
    /\ last.before.sp = 1
    /\ program_counter = last.before.pc + 2
    /\ stack_pointer = 1

\* C5: for every nnn in 0..0xFFF, jump(nnn) returns normally with PC = nnn
\* and changes nothing else.
C5_JumpSetsPC ==
    [][ \A nnn \in NNN :
          jump(nnn) =>
            /\ outcome' = "ok"
            /\ program_counter' = nnn
            /\ UNCHANGED <<stack_pointer, address_register, registers, memory,
                           stack, delay_timer, sound_timer, draw_flag, display>> ]_vars

\* C6: call(nnn) with stack pointer s, 0 <= s < 16, stores the PC it was
\* called at in stack[s] and leaves every other slot alone, sets SP to s + 1
\* and the PC to nnn, and changes no register, timer or memory cell.
C6_CallFrame ==
    [][ \A nnn \in NNN :
          (last'.op = "call" /\ call(nnn) /\ 0 <= stack_pointer /\ stack_pointer < 16) =>
            /\ outcome' = "ok"
            /\ stack'[stack_pointer] = program_counter
            /\ \A i \in 0..15 : i # stack_pointer => stack'[i] = stack[i]
            /\ stack_pointer' = stack_pointer + 1
            /\ program_counter' = nnn
            /\ UNCHANGED <<registers, delay_timer, sound_timer, memory>> ]_vars

\* C6 witness: a call has pushed its PC on a slot above the first one and
\* left the slot below with the other return address it held.
C6_Witness ==
    /\ last.op = "call"
    /\ last.sp = 1
    /\ stack_pointer = 2
    /\ stack[1] = last.pc
    /\ stack[0] # stack[1]

\* C7: each of the four skip instructions advances the PC by exactly 4 when
\* its condition holds and by exactly 2 when it does not, whatever the
\* operands, and leaves registers, stack, SP, timers and memory unchanged.
IsSkip(op) == op \in {"skip_if", "skip_if_not", "skip_if_xy", "skip_if_not_xy"}

C7_SkipBy4Or2 ==
    [][ IsSkip(last'.op) =>
          /\ outcome' = "ok"
          /\ UNCHANGED <<registers, stack, stack_pointer, delay_timer,
                         sound_timer, memory>>
          /\ \A x \in RegIdx, y \in RegIdx, kk \in KK :
                /\ skip_if(x, kk) =>
                     program_counter' =
                         program_counter + (IF registers[x] = kk THEN 4 ELSE 2)
                /\ skip_if_not(x, kk) =>
                     program_counter' =
                         program_counter + (IF registers[x] # kk THEN 4 ELSE 2)
                /\ skip_if_xy(x, y) =>
                     program_counter' =
                         program_counter + (IF registers[x] = registers[y] THEN 4 ELSE 2)
                /\ skip_if_not_xy(x, y) =>
                     program_counter' =
                         program_counter + (IF registers[x] # registers[y] THEN 4 ELSE 2)
      ]_vars

\* C7 witness: a skip whose condition held (two registers differ) has moved
\* the PC by 4.
C7_Witness ==
    /\ last.op = "skip_if_not_xy"
    /\ registers[0] # registers[15]
    /\ program_counter = last.pc + 4

\* C8: for Vx in 0..255, shift_left(x) sets VF to the most significant bit
\* of the original Vx and stores (Vx << 1) mod 256 in Vx.  Stated for
\* x # 0xF, as C2 is.
C8_ShiftLeftWraps ==
    [][ \A x \in RegIdx \ {15} :
          (last'.op = "shift_left" /\ shift_left(x) /\ IsByte(registers[x])) =>
            /\ registers'[15] = (registers[x] \div 128) % 2
            /\ registers'[x] = (registers[x] * 2) % 256 ]_vars

\* C9: draw(x, y, n) XORs the n sprite rows at Memory[I..I+n-1] onto the
\* display, bit b of row r at column (Vx + b) mod 64 of row (Vy + r) mod 32,
\* sets VF to 1 iff a pixel went from set to unset, marks the display dirty
\* and advances the PC by 2.
SpriteBit(byte, b) == (byte \div (2 ^ (7 - b))) % 2

SpritePixels(x, y, n) ==
    { <<(registers[y] + r) % 32, (registers[x] + b) % 64>> :
        <<r, b>> \in { rb \in (0..(n - 1)) \X (0..7) :
            SpriteBit(cell(memory, (address_register + rb[1]) % 4096).whole,
                      rb[2]) = 1 } }

C9_DrawXorsSprite ==
    [][ \A x \in RegIdx, y \in RegIdx, n \in SpriteRows :
          (last'.op = "draw" /\ draw(x, y, n)) =>
            LET sprite == SpritePixels(x, y, n) IN
            /\ outcome' = "ok"
            /\ display' = (display \ sprite) \cup (sprite \ display)
            /\ registers'[15] = IF sprite \cap display # {} THEN 1 ELSE 0
            /\ draw_flag' = TRUE
            /\ program_counter' = program_counter + 2 ]_vars

\* C10: save_v(x) copies V0..Vx to Memory[I..I+x] and load_v(x) copies
\* Memory[I..I+x] to V0..Vx, so that a load_v(x) after a save_v(x) at the
\* same I gives back the registers as they were saved.
C10_SaveAndLoadRegisters ==
    [][ \A x \in RegIdx :
          (0 <= address_register /\ address_register + x < 4096) =>
            /\ (last'.op = "save_v" /\ save_v(x)) =>
                 /\ outcome' = "ok"
                 /\ \A i \in 0..x : cell(memory', address_register + i) = int(registers[i])
            /\ (last'.op = "load_v" /\ load_v(x)) =>
                 /\ outcome' = "ok"
                 /\ \A i \in 0..x : int(registers'[i]) = cell(memory, address_register + i)
      ]_vars

\* C11: load_key(x) (Fx0A) ends normally and leaves the CPU waiting for a
\* key with the PC already advanced by 2 past the instruction; while it
\* waits (no key is pressed) a cycle ends normally having fetched and
\* executed nothing: PC, registers, memory and stack are as they were.
C11_WaitForKey ==
    [][ /\ \A x \in RegIdx :
             (last'.op = "load_key" /\ load_key(x)) =>
               /\ outcome' = "ok"
               /\ program_counter' = program_counter + 2
               /\ UNCHANGED <<registers, memory, stack>>
        /\ (last.op = "load_key" /\ cycle) =>
               /\ outcome' = "ok"
               /\ UNCHANGED <<program_counter, registers, memory, stack>> ]_vars

\* The instruction word at pc, big-endian, and whether it matches one of the
\* 35 opcode patterns (0nnn, 00E0, 00EE, 1nnn .. Dxyn, Ex9E, ExA1, Fx07 ..
\* Fx65).
InstructionWord(mem, pc) == cell(mem, pc).whole * 256 + cell(mem, pc + 1).whole

KnownOpcode(word) ==
    LET top == word \div 4096
        n == word % 16
        kk == word % 256
    IN  CASE top \in {5, 9} -> n = 0
          [] top = 8 -> n \in (0..7) \cup {14}
          [] top = 14 -> kk \in {158, 161}
          [] top = 15 -> kk \in {7, 10, 21, 24, 30, 41, 51, 85, 101}
          [] OTHER -> TRUE

\* C12: a cycle that finds at Memory[PC], Memory[PC+1] a word matching none
\* of the 35 opcode patterns ends with the error UnknownOpcode, an outcome
\* of its own: it neither completes as a normal instruction does nor ends
\* as a cycle on a known instruction can.
C12_UnknownOpcode ==
    [][ (/\ last'.op = "cycle"
         /\ cycle
         /\ 0 <= program_counter
         /\ program_counter < 4095
         /\ ~KnownOpcode(InstructionWord(memory, program_counter))) =>
            outcome' = "UnknownOpcode" ]_vars

\* C13: call(nnn) made with SP = 16, every stack slot in use, fails: it ends
\* with an error raised to its caller (neither a normal return nor the exit
\* of the process), writes no stack slot and leaves SP and PC as they were.
C13_CallOnFullStack ==
    [][ \A nnn \in NNN :
          (last'.op = "call" /\ stack_pointer = StackSize /\ call(nnn)) =>
            /\ outcome' \notin {"ok", "SystemExit"}
            /\ UNCHANGED <<stack, stack_pointer, program_counter>> ]_vars

\* C13 witness: a call made with SP = 16 has ended with an error and SP is
\* still 16.
C13_Witness ==
    /\ last.op = "call"
    /\ last.sp = StackSize
    /\ stack_pointer = StackSize
    /\ outcome = "IndexError"

\* C14: no call ends with the exit of the process: a fault is an error the
\* host receives.  In particular ret() made with SP = 0 does not return
\* normally and does not exit, and a jump to an out-of-range target does not
\* exit either.
C14_FaultsAreReported ==
    [][ /\ outcome' # "SystemExit"
        /\ (last'.op = "ret" /\ stack_pointer = 0 /\ ret) => outcome' # "ok" ]_vars

\* C15: load_file of a ROM of L bytes, L <= 0xFFF - 0x200 + 1, returns
\* normally with byte i of the ROM in Memory[0x200 + i], whatever the PC
\* is, and with every other cell, the font included, as it was.
C15_RomLoadedAtProgramStart ==
    [][ \A rom \in Roms :
          (/\ last'.op = "load_file"
           /\ load_file(rom)
           /\ Len(rom) <= MemorySize - ProgramStart) =>
            /\ outcome' = "ok"
            /\ \A a \in DOMAIN memory \cup DOMAIN memory'
                          \cup (ProgramStart..(ProgramStart + Len(rom) - 1)) :
                  cell(memory', a) =
                      IF a \in ProgramStart..(ProgramStart + Len(rom) - 1)
                        THEN int(rom[a - ProgramStart + 1])
                        ELSE cell(memory, a) ]_vars

\* C16: every address is reduced into 0..0xFFF: after any call the PC and I
\* are in that range (I + Vx of add_ix, V0 + nnn of jump_v0 and the PC's
\* increments wrap), and load_bcd with I = 0xFFE or 0xFFF returns normally,
\* having written only the cells (I + i) mod 4096, i = 0..2.
C16_AddressesWrap ==
    [][ /\ program_counter' \in 0..(MemorySize - 1)
        /\ address_register' \in 0..(MemorySize - 1)
        /\ \A x \in RegIdx :
             (/\ last'.op = "load_bcd"
              /\ load_bcd(x)
              /\ address_register \in {MemorySize - 2, MemorySize - 1}) =>
                /\ outcome' = "ok"
                /\ \A a \in DOMAIN memory \cup DOMAIN memory' :
                      a \notin { (address_register + i) % MemorySize : i \in 0..2 }
                          => cell(memory', a) = cell(memory, a) ]_vars

\* C17: in every reachable state every register V0..VF holds a value in
\* 0..255: add, add_xy, sub_xy, sub_yx and shift_left store their result
\* modulo 256.
C17_RegistersAreBytes == \A i \in DOMAIN registers : IsByte(registers[i])

\* C18: load_stx(x) sets the sound timer to Vx, advances the PC by 2 and
\* leaves SP, the stack, the delay timer, the registers and memory as they
\* were; load_dtx(x) sets the delay timer to Vx, advances the PC by 2 and
\* changes nothing else.
C18_TimerLoads ==
    [][ \A x \in RegIdx :
          /\ (last'.op = "load_stx" /\ load_stx(x)) =>
               /\ sound_timer' = registers[x]
               /\ program_counter' = program_counter + 2
               /\ UNCHANGED <<stack_pointer, stack, delay_timer, registers, memory>>
          /\ (last'.op = "load_dtx" /\ load_dtx(x)) =>
               /\ delay_timer' = registers[x]
               /\ program_counter' = program_counter + 2
               /\ UNCHANGED <<stack_pointer, stack, sound_timer, registers, memory,
                              address_register, draw_flag, display>> ]_vars

\* C19: for operands in 0..255, sub_xy(x, y) sets VF to 1 iff the original
\* Vx > Vy (else 0) and stores (Vx - Vy) mod 256 in Vx; sub_yx(x, y) sets VF
\* to 1 iff the original Vy > Vx and stores (Vy - Vx) mod 256 in Vx; the
\* stored result is never negative.  Stated for x # 0xF, as C2 is.
C19_SubtractWraps ==
    [][ \A x \in RegIdx \ {15}, y \in RegIdx :
          (IsByte(registers[x]) /\ IsByte(registers[y])) =>
            /\ (last'.op = "sub_xy" /\ sub_xy(x, y)) =>
                 /\ registers'[15] = IF registers[x] > registers[y] THEN 1 ELSE 0
                 /\ registers'[x] = (registers[x] - registers[y]) % 256
                 /\ registers'[x] >= 0
            /\ (last'.op = "sub_yx" /\ sub_yx(x, y)) =>
                 /\ registers'[15] = IF registers[y] > registers[x] THEN 1 ELSE 0
                 /\ registers'[x] = (registers[y] - registers[x]) % 256
                 /\ registers'[x] >= 0 ]_vars

\* C20: for Vx in 0..255 and I, I + 2 within memory, load_bcd(x) writes the
\* hundreds, tens and ones digit of Vx to Memory[I], Memory[I+1] and
\* Memory[I+2]: each cell holds an integer in 0..9 and 100 * hundreds +
\* 10 * tens + ones = Vx.  Vx and every other cell are unchanged and the PC
\* is advanced by 2.
C20_BcdDigits ==
    [][ \A x \in RegIdx :
          (/\ last'.op = "load_bcd"
           /\ load_bcd(x)
           /\ IsByte(registers[x])
           /\ address_register \in 0..(MemorySize - 3)) =>
            LET digit(i) == cell(memory', address_register + i) IN
            /\ outcome' = "ok"
            /\ \A i \in 0..2 : digit(i).hundredths = 0 /\ digit(i).whole \in 0..9
            /\ 100 * digit(0).whole + 10 * digit(1).whole + digit(2).whole
                   = registers[x]
            /\ registers' = registers
            /\ \A a \in DOMAIN memory \cup DOMAIN memory' :
                  a \notin address_register..(address_register + 2)
                      => cell(memory', a) = cell(memory, a)
            /\ program_counter' = program_counter + 2 ]_vars

\* C21: in every reachable state the delay timer and the sound timer each
\* hold an integer in 0..255: no sequence of calls, load_dtx or load_stx
\* after arithmetic on Vx included, makes a timer negative or larger than
\* 255.
C21_TimersAreBytes == IsByte(delay_timer) /\ IsByte(sound_timer)

\* C22: after every call the stack pointer is within the stack's bounds,
\* 0 <= SP <= 16.  Only call and ret change SP: call by +1, from an SP below
\* 16, and ret by -1; nothing but call and ret changes a stack slot.
C22_StackPointerDiscipline ==
    [][ /\ stack_pointer' \in 0..StackSize
        /\ stack_pointer' # stack_pointer =>
             \/ /\ last'.op = "call"
                /\ stack_pointer < StackSize
                /\ stack_pointer' = stack_pointer + 1
             \/ /\ last'.op = "ret"
                /\ stack_pointer' = stack_pointer - 1
        /\ stack' # stack => last'.op \in {"call", "ret"} ]_vars

\* C24: the delay timer counts down with the ticks.  The tick that follows
\* a load_dtx which set the timer to v in 1..255 lowers it to v - 1, so that
\* a timer set to 1 is 0 after exactly one tick; a timer that is 0 stays 0
\* under a tick; and load_xdt reads the timer's value, so a program that
\* polls the timer reads 0 once it got there.
C24_DelayTimerCountsDown ==
    [][ /\ (last'.op = "tick" /\ tick) =>
             /\ (last.op = "load_dtx" /\ delay_timer \in 1..255) =>
                    delay_timer' = delay_timer - 1
             /\ delay_timer = 0 => delay_timer' = 0
        /\ \A x \in RegIdx :
             (last'.op = "load_xdt" /\ load_xdt(x)) => registers'[x] = delay_timer
      ]_vars

====
